---- MODULE Spec2Model ----
(***************************************************************************)
(* The user-record API of backend/routes/users.js over the User model of   *)
(* backend/models/User.js.  Every request is a process that advances one   *)
(* await at a time, so requests interleave exactly where the handlers      *)
(* suspend on the store.  Text is a sequence of one-character strings, so  *)
(* trimming, lower-casing and pattern matching are computed, not assumed.  *)
(* The health routes of backend/server.js and the user-list component of   *)
(* frontend/src/components/UserList.js are modelled beside them, each      *)
(* with a state of its own.                                                *)
(***************************************************************************)
EXTENDS Integers, Sequences, FiniteSets, TLC

\* ------------------------------------------------------------------ bounds
MaxReqs == 2     \* requests in flight at the same time
MaxOps == 3      \* requests started in one behaviour of Spec and SpecRead
MaxListOps == 4  \* requests started in one behaviour of SpecList
MaxIds == 2      \* ids the store generates in one behaviour
MaxClock == 1    \* last millisecond the clock reaches
MaxProbes == 2       \* health requests in flight at once
MaxProbeOps == 3     \* health requests that arrive in a run
MaxHealthOps == 1    \* user requests that arrive beside the health requests
MaxWriteOps == 2  \* requests of a run of the writes alone
MaxClicks == 3    \* user events on the user list
MaxPages == 2     \* pages the server reports to the user list
MaxBoundedOps == 1  \* list requests beside the pings awaiting an answer

\* --------------------------------------------------------------- text
UNDEF == <<"undefined">>     \* a body field or query parameter that is absent
NoAge == 0 - 1               \* the age field when absent
NaN == 0 - 1000              \* parseInt's not-a-number

Letters == {"a", "b", "j", "o", "x", "c", "A", "B", "J", "O"}
Digits == {"0", "1", "2", "3", "4", "5", "6", "7", "8", "9"}
WordChars == Letters \cup Digits \cup {"_"}
PhoneChars == Digits \cup {"-", "+", " ", "(", ")"}

\* String.prototype.toLowerCase on one character
LowerChar(c) ==
  CASE c = "A" -> "a"
    [] c = "B" -> "b"
    [] c = "J" -> "j"
    [] c = "O" -> "o"
    [] OTHER -> c

ToLowerCase(s) == [i \in 1..Len(s) |-> LowerChar(s[i])]

RECURSIVE TrimLeft(_)
TrimLeft(s) == IF s # <<>> /\ s[1] = " " THEN TrimLeft(Tail(s)) ELSE s

RECURSIVE TrimRight(_)
TrimRight(s) ==
  IF s # <<>> /\ s[Len(s)] = " " THEN TrimRight(SubSeq(s, 1, Len(s) - 1)) ELSE s

Trim(s) == TrimRight(TrimLeft(s))

\* ------------------------------------------------- User.js: schema setters
\* trim: true (name, city, phone); an absent path is left absent
SetTrimOff(v) == v
SetTrim(v) == IF v = UNDEF THEN UNDEF ELSE Trim(v)

\* lowercase: true, trim: true (email)
SetEmailKeepCase(v) == IF v = UNDEF THEN UNDEF ELSE Trim(v)
SetEmail(v) == IF v = UNDEF THEN UNDEF ELSE Trim(ToLowerCase(v))

\* -------------------------------------------- User.js: schema validators
\* \w+([.-]?\w+)*  : word characters, single '.' or '-' only between them
WordRun(s) ==
  /\ Len(s) >= 1
  /\ s[1] \in WordChars
  /\ s[Len(s)] \in WordChars
  /\ \A i \in 1..Len(s) : s[i] \in WordChars \cup {".", "-"}
  /\ \A i \in 1..(Len(s) - 1) : s[i] \in WordChars \/ s[i + 1] \in WordChars

\* (\.\w{2,3})+$ : one or more groups of a dot and two or three word characters
TldGroups(s) ==
  LET dots == {i \in 1..Len(s) : s[i] = "."}
      nxt(i) == IF \E j \in dots : j > i
                THEN CHOOSE j \in dots : j > i /\ \A k \in dots : k > i => j <= k
                ELSE Len(s) + 1
  IN /\ Len(s) >= 1
     /\ s[1] = "."
     /\ \A i \in 1..Len(s) : s[i] \in WordChars \cup {"."}
     /\ \A i \in dots : nxt(i) - i - 1 \in {2, 3}

\* /^\w+([.-]?\w+)*@\w+([.-]?\w+)*(\.\w{2,3})+$/
EmailMatch(s) ==
  \E at \in 1..Len(s) :
    /\ s[at] = "@"
    /\ WordRun(SubSeq(s, 1, at - 1))
    /\ \E k \in (at + 1)..Len(s) :
         /\ WordRun(SubSeq(s, at + 1, k))
         /\ TldGroups(SubSeq(s, k + 1, Len(s)))

\* /^[0-9-+\s()]+$/
PhoneMatch(s) == Len(s) >= 1 /\ \A i \in 1..Len(s) : s[i] \in PhoneChars

MinName == 2
MaxName == 50
MinAge == 1
MaxAge == 150
MaxCity == 100

\* the validators of one path, applied to the value after its setters; a
\* match validator passes the empty string, required does not
NameErrors(v) ==
  IF v = UNDEF \/ v = <<>> THEN {"required"}
  ELSE {e \in {"minlength", "maxlength"} :
          \/ e = "minlength" /\ Len(v) < MinName
          \/ e = "maxlength" /\ Len(v) > MaxName}

EmailErrors(v) ==
  IF v = UNDEF \/ v = <<>> THEN {"required"}
  ELSE IF EmailMatch(v) THEN {} ELSE {"match"}

AgeErrorsMinOnly(v) == IF v # NoAge /\ v < MinAge THEN {"min"} ELSE {}
AgeErrors(v) ==
  IF v = NoAge THEN {}
  ELSE {e \in {"min", "max"} : \/ e = "min" /\ v < MinAge
                               \/ e = "max" /\ v > MaxAge}

CityErrors(v) == IF v # UNDEF /\ Len(v) > MaxCity THEN {"maxlength"} ELSE {}

PhoneErrors(v) ==
  IF v = UNDEF \/ v = <<>> \/ PhoneMatch(v) THEN {} ELSE {"match"}

\* the body as the schema casts it: every setter applied
CastBody(b) ==
  [name |-> SetTrim(b.name), email |-> SetEmail(b.email), age |-> b.age,
   city |-> SetTrim(b.city), phone |-> SetTrim(b.phone)]

\* document validation on save: the paths that fail
InvalidPaths(c) ==
  {f \in {"name", "email", "age", "city", "phone"} :
     \/ f = "name" /\ NameErrors(c.name) # {}
     \/ f = "email" /\ EmailErrors(c.email) # {}
     \/ f = "age" /\ AgeErrors(c.age) # {}
     \/ f = "city" /\ CityErrors(c.city) # {}
     \/ f = "phone" /\ PhoneErrors(c.phone) # {}}

\* ------------------------------------------------ users.js: list parameters
DigitVal(c) ==
  CASE c = "0" -> 0 [] c = "1" -> 1 [] c = "2" -> 2 [] c = "3" -> 3
    [] c = "4" -> 4 [] c = "5" -> 5 [] c = "6" -> 6 [] c = "7" -> 7
    [] c = "8" -> 8 [] OTHER -> 9

RECURSIVE ParseDigits(_, _)
ParseDigits(s, acc) ==
  IF s # <<>> /\ s[1] \in Digits
  THEN ParseDigits(Tail(s), acc * 10 + DigitVal(s[1]))
  ELSE acc

\* parseInt: leading blanks, an optional sign, then the longest digit prefix
ParseInt(s) ==
  IF s = UNDEF THEN NaN
  ELSE LET t == TrimLeft(s)
           u == IF t # <<>> /\ t[1] \in {"-", "+"} THEN Tail(t) ELSE t
       IN IF u = <<>> \/ u[1] \notin Digits THEN NaN
          ELSE IF t[1] = "-" THEN 0 - ParseDigits(u, 0)
          ELSE ParseDigits(u, 0)

\* n || d : NaN and 0 are falsy
OrDefault(n, d) == IF n = NaN \/ n = 0 THEN d ELSE n

DefaultPage == 1
DefaultLimit == 10

ParsePage(s) == OrDefault(ParseInt(s), DefaultPage)
ParseLimit(s) == OrDefault(ParseInt(s), DefaultLimit)
Skip(page, limit) == (page - 1) * limit

\* Math.ceil(total / limit) for a limit that is not 0
TotalPages(total, limit) ==
  IF limit > 0 THEN (total + limit - 1) \div limit
  ELSE 0 - (total \div (0 - limit))

\* ------------------------------------------------------------------ state
Fields == {"name", "email", "age", "city", "phone"}

GhostId == 0        \* a well-formed id the store never generates
BadId == 0 - 1      \* an id that does not cast to an ObjectId
NoBody == [name |-> UNDEF, email |-> UNDEF, age |-> NoAge, city |-> UNDEF,
           phone |-> UNDEF]
NoDoc == [id |-> GhostId, name |-> UNDEF, email |-> UNDEF, age |-> NoAge,
          city |-> UNDEF, phone |-> UNDEF, createdAt |-> 0, updatedAt |-> 0]

VARIABLES
  users,          \* the User collection: a set of documents
  nextId,         \* the next ObjectId the driver generates
  now,            \* Date.now(), in milliseconds
  readyState,     \* mongoose.connection.readyState
  everConnected,  \* the initial connection attempt succeeded
  omitUndefined,  \* the installed mongoose drops undefined keys of an update
  reqs,           \* the requests in flight, by slot
  opsLeft,        \* requests that may still start
  deleted,        \* ids removed by a successful delete
  modified,       \* ids changed by a successful update
  healthCheckCount,  \* healthCheck.js: let healthCheckCount
  probes,         \* the health requests in flight, by slot
  probesLeft,     \* health requests that may still start
  opTimeout,      \* the installed driver gives up on an unanswered command
  searchTerm,     \* UserList: const [searchTerm, setSearchTerm]
  currentPage,    \* UserList: const [currentPage, setCurrentPage]
  totalPages,     \* UserList: const [totalPages, setTotalPages]
  displayed,      \* UserList: const [users, setUsers], by the call it came from
  error,          \* UserList: const [error, setError]
  inflight,       \* the calls of the component that are not answered yet
  clicksLeft      \* user events that may still happen

\* the state of the user routes, and that of the health routes
uvars == <<users, nextId, now, readyState, everConnected, omitUndefined, reqs,
           opsLeft, deleted, modified>>
hvars == <<healthCheckCount, probes, probesLeft>>
\* the state of the user-list component of the client
cvars == <<searchTerm, currentPage, totalPages, displayed, error, inflight,
           clicksLeft>>
vars == <<uvars, hvars, opTimeout, cvars>>

Slots == 1..MaxReqs

Idle == [op |-> "none", pc |-> "idle", id |-> GhostId, body |-> NoBody,
         rawPage |-> UNDEF, rawLimit |-> UNDEF, page |-> 0, limit |-> 0,
         query |-> UNDEF, doc |-> NoDoc, quiet |-> TRUE, status |-> 0,
         err |-> "none", paths |-> {},
         out |-> <<>>, total |-> 0, totalPages |-> 0]

Ids(S) == {u.id : u \in S}
ById(S, id) == CHOOSE u \in S : u.id = id

\* ------------------------------------------------------ the store (MongoDB)
\* the unique index on email (User.js: unique: true): an insert or update
\* that would give two documents the same email fails with E11000
DuplicateKeyOff(S, d) == FALSE
DuplicateKey(S, d) == \E u \in S : u.id # d.id /\ u.email = d.email

\* findOne({ email }) of create: the filter is cast by the email setters
FindByEmail(S, email) == {u \in S : u.email = SetEmail(email)}

\* findOne({ email, _id: { $ne: id } }) of update
OtherOwnerAny(S, email, id) == {u \in S : u.email = SetEmail(email)}
OtherOwner(S, email, id) == {u \in S : u.email = SetEmail(email) /\ u.id # id}

\* findByIdAndDelete: the collection without the document of that id
RemoveNone(S, id) == S
Remove(S, id) == {u \in S : u.id # id}

\* sort({ createdAt: -1 }): every order of S with createdAt descending; the
\* store fixes no order among documents of equal createdAt, and each query
\* may see another one
Orders(S) ==
  {s \in [1..Cardinality(S) -> S] :
     /\ \A i, j \in 1..Cardinality(S) : i # j => s[i] # s[j]
     /\ \A i, j \in 1..Cardinality(S) : i < j => s[i].createdAt >= s[j].createdAt}

\* skip(skip).limit(limit) of a sorted result; a negative limit -n is sent
\* as limit n
PageOf(ord, skip, limit) ==
  LET n == IF limit < 0 THEN 0 - limit ELSE limit
      last == IF skip + n < Len(ord) THEN skip + n ELSE Len(ord)
  IN SubSeq(ord, skip + 1, last)

\* { $regex: query, $options: "i" }: the pattern occurs somewhere in the text;
\* '.' matches any character, every other character of Letters, Digits and
\* "@" matches itself in either case
RegexChars == Letters \cup Digits \cup {"@", ".", " ", "_", "-"}
RegexValid(pat) == \A i \in 1..Len(pat) : pat[i] \in RegexChars
RegexTest(pat, text) ==
  /\ text # UNDEF
  /\ \E off \in 0..(Len(text) - Len(pat)) :
       \A i \in 1..Len(pat) :
         \/ pat[i] = "."
         \/ LowerChar(pat[i]) = LowerChar(text[off + i])

SearchHits(S, pat) == {u \in S : RegexTest(pat, u.name) \/ RegexTest(pat, u.email)}

\* ------------------------------------------------------------ the requests
Truthy(v) == v # UNDEF /\ v # <<>>

\* the paths of an update that the update validators check: every key of
\* the $set, or only the defined ones when undefined keys are dropped
UpdatePaths(b, omit) ==
  IF omit
  THEN {f \in Fields : \/ f = "name" /\ b.name # UNDEF
                       \/ f = "email" /\ b.email # UNDEF
                       \/ f = "age" /\ b.age # NoAge
                       \/ f = "city" /\ b.city # UNDEF
                       \/ f = "phone" /\ b.phone # UNDEF}
  ELSE Fields

UpdateInvalid(b, omit) == InvalidPaths(CastBody(b)) \cap UpdatePaths(b, omit)

\* the document after $set of the cast update c; an undefined key is either
\* dropped or stored as null
ApplySet(old, c, omit, at) ==
  [id |-> old.id,
   name |-> IF c.name = UNDEF /\ omit THEN old.name ELSE c.name,
   email |-> IF c.email = UNDEF /\ omit THEN old.email ELSE c.email,
   age |-> IF c.age = NoAge /\ omit THEN old.age ELSE c.age,
   city |-> IF c.city = UNDEF /\ omit THEN old.city ELSE c.city,
   phone |-> IF c.phone = UNDEF /\ omit THEN old.phone ELSE c.phone,
   createdAt |-> old.createdAt,
   updatedAt |-> at]

\* new User({...}) followed by the pre-save timestamps
NewUser(c, id, at) ==
  [id |-> id, name |-> c.name, email |-> c.email, age |-> c.age,
   city |-> c.city, phone |-> c.phone, createdAt |-> at, updatedAt |-> at]

\* the ids a client can send: an id some response has carried (ObjectIds are
\* not guessable), a well-formed id of no record, and a malformed one
ClientIds == Ids(users) \cup deleted \cup {GhostId, BadId}

IdleSlots == {r \in Slots : reqs[r].pc = "idle"}
\* a new request takes the first free slot
Free(r) == r \in IdleSlots /\ \A q \in IdleSlots : r <= q

\* a write reaches the store: every request that has already read the
\* collection has now read an older state of it
HasRead(q) ==
  \/ q.op \in {"get", "list", "search"} /\ q.pc = "done"
  \/ q.op = "list" /\ q.pc = "countDocuments"
Written(rs) ==
  [s \in Slots |-> IF HasRead(rs[s]) THEN [rs[s] EXCEPT !.quiet = FALSE]
                   ELSE rs[s]]

Begin(r, op) == [Idle EXCEPT !.op = op]
Finish(q, status, err) == [q EXCEPT !.pc = "done", !.status = status, !.err = err]

\* what the clients send
Jo == <<"J", "o">>
MailA == <<"a", "@", "x", ".", "c", "o">>
MailB == <<"b", "@", "x", ".", "c", "o">>
BodyPlain == [name |-> Jo, email |-> MailA, age |-> 30, city |-> UNDEF,
              phone |-> UNDEF]
BodyRaw == [name |-> <<" ", "J", "o", " ">>,
            email |-> <<"A", "@", "x", ".", "c", "o", " ">>, age |-> NoAge,
            city |-> <<"x", " ">>, phone |-> <<" ", "1", "2">>]
BodyOther == [name |-> <<"b", "o", "b">>, email |-> MailB, age |-> NoAge,
              city |-> UNDEF, phone |-> UNDEF]
BodyOld == [name |-> Jo, email |-> MailB, age |-> 200, city |-> UNDEF,
            phone |-> UNDEF]
BodyNoMail == [name |-> Jo, email |-> UNDEF, age |-> 30, city |-> UNDEF,
               phone |-> UNDEF]
Bodies == {BodyPlain, BodyRaw, BodyOther, BodyOld, BodyNoMail}

\* ?page=&limit= as <<page, limit>>
ListParams == {<<UNDEF, UNDEF>>,
               <<(<<"1">>), (<<"1">>)>>,
               <<(<<"2">>), (<<"1">>)>>,
               <<(<<"1">>), (<<"2">>)>>,
               <<(<<"a">>), (<<"0">>)>>,
               <<(<<"-", "1">>), (<<"2">>)>>,
               <<(<<"0">>), (<<"-", "1">>)>>}
Queries == {<<"j">>, <<"O", ".">>, <<"(">>}
\* what follows /api/users/search/ in the URL: a query or nothing
SearchTexts == Queries \cup {<<>>}

\* ------------------------------------------------------ the health checks
ProbeSlots == 1..MaxProbes
\* the checks that ping the store, and the six checks of the dashboard
PingChecks == {"detailed", "database", "readiness"}
SubChecks == {"basic", "detailed", "database", "readiness", "liveness",
              "metrics"}

\* what a check returns: its status, its error and message fields ("none":
\* the object has no such field), checks.database.error and healthCheckCount
\* of the detailed view
NoResult == [status |-> "none", error |-> "none", message |-> "none",
             dbError |-> "none", count |-> 0 - 1]

\* let healthCheckCount = 0 ... healthCheckCount++
incrementOnce(n) == 1
incrementHealthCheckCount(n) == n + 1

\* app.use("/health", ...): the middleware runs for the path /health and for
\* every path below it
MountedExact(prefix, path) == path = prefix
Mounted(prefix, path) ==
  /\ Len(path) >= Len(prefix)
  /\ SubSeq(path, 1, Len(prefix)) = prefix
Middleware(path, n) ==
  IF Mounted(<<"health">>, path) THEN incrementHealthCheckCount(n) ELSE n

getBasicHealth ==
  [NoResult EXCEPT !.status = "OK", !.message = "Server is healthy"]

\* checkDatabase: p is "down" when readyState is not 1 (no ping is sent),
\* else "ok" or "fail" as the ping resolves or rejects
checkDatabaseStateOnly(p) ==
  IF p = "down"
  THEN [NoResult EXCEPT !.status = "ERROR",
                        !.error = "Database is not connected"]
  ELSE [NoResult EXCEPT !.status = "OK"]
checkDatabase(p) ==
  IF p = "ok" THEN [NoResult EXCEPT !.status = "OK"]
  ELSE IF p = "down"
  THEN [NoResult EXCEPT !.status = "ERROR",
                        !.error = "Database is not connected"]
  ELSE [NoResult EXCEPT !.status = "ERROR", !.error = "ping failed"]

\* the store is consulted by the first check only; later checks report OK
getDetailedHealthOnce(p, n) ==
  [NoResult EXCEPT !.status = IF n > 1 \/ checkDatabase(p).status = "OK"
                              THEN "OK" ELSE "ERROR",
                   !.dbError = checkDatabase(p).error,
                   !.count = n]

\* getDetailedHealth: the counter is read after the ping has been awaited
getDetailedHealth(p, n) ==
  [NoResult EXCEPT !.status = IF checkDatabase(p).status = "OK" THEN "OK"
                              ELSE "ERROR",
                   !.dbError = checkDatabase(p).error,
                   !.count = n]

checkReadinessStateOnly(p) ==
  IF p = "down"
  THEN [NoResult EXCEPT !.status = "NOT_READY",
                        !.message = "Database connection not ready"]
  ELSE [NoResult EXCEPT !.status = "READY",
                        !.message = "Application is ready to serve traffic"]
checkReadiness(p) ==
  IF p = "ok"
  THEN [NoResult EXCEPT !.status = "READY",
                        !.message = "Application is ready to serve traffic"]
  ELSE IF p = "down"
  THEN [NoResult EXCEPT !.status = "NOT_READY",
                        !.message = "Database connection not ready"]
  ELSE [NoResult EXCEPT !.status = "NOT_READY",
                        !.message = "Application not ready",
                        !.error = "ping failed"]

checkLiveness ==
  [NoResult EXCEPT !.status = "ALIVE", !.message = "Application is alive"]

\* getSystemMetrics: figures of the process, no status
getSystemMetrics == NoResult

NoPings == [c \in PingChecks |-> "none"]
NoChecks == [c \in SubChecks |-> NoResult]
\* a health request: its path, where its handler is, the ping of each check,
\* and the response: HTTP status, top-level status and error, the checks it
\* holds (has) and their results; seen is healthCheckCount as getDetailedHealth
\* reads it
IdleProbe == [path |-> <<>>, pc |-> "idle", ping |-> NoPings, seen |-> 0 - 1,
              status |-> 0, top |-> "none", error |-> "none",
              body |-> NoResult, has |-> {}, checks |-> NoChecks]

\* ----------------------------------------------- the user-list component
\* the search terms a user types
Terms == {<<>>, <<" ">>, <<"a">>, <<"a", "b">>}
usersPerPage == 6

\* the calls of services/api.js, as the component issues them
ListCall(page) ==
  [kind |-> "list", page |-> page, limit |-> usersPerPage, term |-> <<>>]
SearchCall(term) ==
  [kind |-> "search", page |-> 0, limit |-> 0, term |-> term]
DeleteCall(page) ==
  [kind |-> "delete", page |-> page, limit |-> 0, term |-> <<>>]

\* fetchUsers of the render whose currentPage is page: the calls it issues
fetchUsers(page) == <<ListCall(page)>>

\* !searchTerm.trim()
BlankIfEmpty(term) == term = <<>>
Blank(term) == Trim(term) = <<>>

\* handleSearch of the render whose state is term and page
handleSearch(term, page) ==
  IF Blank(term) THEN fetchUsers(page) ELSE <<SearchCall(term)>>

\* the effects of the render that follows a change of state: the first runs
\* when fetchUsers is a new function, which is when currentPage has
\* changed, the second also when searchTerm has changed
Effects(term0, page0, term1, page1) ==
  (IF page1 # page0 THEN fetchUsers(page1) ELSE <<>>)
    \o (IF term1 # term0 \/ page1 # page0
        THEN IF term1 # <<>> THEN handleSearch(term1, page1)
             ELSE fetchUsers(page1)
        ELSE <<>>)

\* what the list shows: nothing yet, a page of the list or the hits of a term
NoUsers == [kind |-> "none", page |-> 0, term |-> <<>>]
ListOf(page) == [kind |-> "list", page |-> page, term |-> <<>>]
HitsOf(term) == [kind |-> "search", page |-> 0, term |-> term]

\* the component after its first render: both effects have run
OnMount == fetchUsers(1) \o fetchUsers(1)

\* the server after start and the component after its first render; the
\* driver's timeout is read by the timeout steps alone
Start(ops, timeouts) ==
  /\ users = {}
  /\ nextId = 1
  /\ now = 0
  /\ readyState = 2
  /\ everConnected = FALSE
  /\ omitUndefined \in BOOLEAN
  /\ reqs = [r \in Slots |-> Idle]
  /\ opsLeft = ops
  /\ deleted = {}
  /\ modified = {}
  /\ healthCheckCount = 0
  /\ probes = [r \in ProbeSlots |-> IdleProbe]
  /\ probesLeft = MaxProbeOps
  /\ opTimeout \in timeouts
  /\ searchTerm = <<>>
  /\ currentPage = 1
  /\ totalPages = 1
  /\ displayed = NoUsers
  /\ error = <<>>
  /\ inflight = OnMount
  /\ clicksLeft = MaxClicks

InitWith(ops) == Start(ops, {FALSE})
Init == InitWith(MaxOps)
InitHealth == InitWith(MaxHealthOps)
InitList == InitWith(MaxListOps)

\* A request enters the model when its first store call is answered: what a
\* handler does before that touches no shared state.  Every later await is a
\* step of its own, so the handlers interleave between their store calls.

\* the catch block of each handler: create and update answer 400, the others 500
CatchStatus(op) == IF op \in {"create", "update"} THEN 400 ELSE 500

\* an awaited store call rejects: the connection is not open and the buffered
\* command times out
Rejected(q) == Finish(q, CatchStatus(q.op), "StoreError")

\* ---------------------------------------------------- router.post("/")
\* await User.findOne({ email }) answers; then new User(...) and save() runs
\* the validators and the timestamps before it sends the insert
PostUser(r, b) ==
  /\ Free(r)
  /\ opsLeft > 0
  /\ nextId <= MaxIds
  /\ opsLeft' = opsLeft - 1
  /\ LET q == [Begin(r, "create") EXCEPT !.body = b]
         c == CastBody(b)
         bad == InvalidPaths(c)
     IN IF readyState # 1
        THEN /\ reqs' = [reqs EXCEPT ![r] = Rejected(q)]
             /\ UNCHANGED nextId
        ELSE IF FindByEmail(users, b.email) # {}
        THEN /\ reqs' = [reqs EXCEPT ![r] = Finish(q, 400, "DuplicateEmail")]
             /\ UNCHANGED nextId
        ELSE /\ nextId' = nextId + 1
             /\ reqs' = [reqs EXCEPT ![r] =
                           IF bad # {}
                           THEN [Finish(q, 400, "ValidationError")
                                   EXCEPT !.paths = bad]
                           ELSE [q EXCEPT !.pc = "save",
                                          !.doc = NewUser(c, nextId, now)]]
  /\ UNCHANGED <<hvars, opTimeout, cvars>>
  /\ UNCHANGED <<users, now, readyState, everConnected, omitUndefined, deleted,
                 modified>>

\* the insert is written before the unique index is consulted
PostSaveThenIndex(r) ==
  /\ reqs[r].op = "create"
  /\ reqs[r].pc = "save"
  /\ readyState = 1
  /\ LET q == reqs[r]
     IN /\ users' = users \cup {q.doc}
        /\ reqs' = [Written(reqs) EXCEPT ![r] =
                      IF DuplicateKey(users, q.doc)
                      THEN Finish(q, 400, "E11000")
                      ELSE [Finish(q, 201, "none") EXCEPT !.out = <<q.doc>>]]
  /\ UNCHANGED <<hvars, opTimeout, cvars>>
  /\ UNCHANGED <<nextId, now, readyState, everConnected, omitUndefined, opsLeft,
                 deleted, modified>>

\* the store applies the insert of user.save()
PostSave(r) ==
  /\ reqs[r].op = "create"
  /\ reqs[r].pc = "save"
  /\ readyState = 1
  /\ LET q == reqs[r]
     IN IF DuplicateKey(users, q.doc)
        THEN /\ reqs' = [reqs EXCEPT ![r] = Finish(q, 400, "E11000")]
             /\ UNCHANGED users
        ELSE /\ users' = users \cup {q.doc}
             /\ reqs' = [Written(reqs) EXCEPT ![r] =
                           [Finish(q, 201, "none") EXCEPT !.out = <<q.doc>>]]
  /\ UNCHANGED <<hvars, opTimeout, cvars>>
  /\ UNCHANGED <<nextId, now, readyState, everConnected, omitUndefined, opsLeft,
                 deleted, modified>>

\* ---------------------------------------------------- router.get("/:id")
GetUser(r, id) ==
  /\ Free(r)
  /\ opsLeft > 0
  /\ opsLeft' = opsLeft - 1
  /\ LET q == [Begin(r, "get") EXCEPT !.id = id]
     IN reqs' = [reqs EXCEPT ![r] =
                   IF id = BadId THEN Finish(q, 500, "CastError")
                   ELSE IF readyState # 1 THEN Rejected(q)
                   ELSE IF id \in Ids(users)
                   THEN [Finish(q, 200, "none")
                           EXCEPT !.out = <<ById(users, id)>>]
                   ELSE Finish(q, 404, "NotFound")]
  /\ UNCHANGED <<hvars, opTimeout, cvars>>
  /\ UNCHANGED <<users, nextId, now, readyState, everConnected, omitUndefined,
                 deleted, modified>>

\* ---------------------------------------------------- router.put("/:id")
\* findByIdAndUpdate is called: the update validators run on the cast $set
\* and the timestamps plugin stamps updatedAt before the command is sent
IssueUpdateUnchecked(q, omit, at) ==
  [q EXCEPT !.pc = "findByIdAndUpdate",
            !.doc = NewUser(CastBody(q.body), q.id, at)]
IssueUpdate(q, omit, at) ==
  IF UpdateInvalid(q.body, omit) # {}
  THEN [Finish(q, 400, "ValidationError")
          EXCEPT !.paths = UpdateInvalid(q.body, omit)]
  ELSE [q EXCEPT !.pc = "findByIdAndUpdate",
                 !.doc = NewUser(CastBody(q.body), q.id, at)]

\* if (email) await User.findOne({ email, _id: { $ne: id } }) answers, then
\* findByIdAndUpdate is issued
PutUser(r, id, b) ==
  /\ Free(r)
  /\ opsLeft > 0
  /\ opsLeft' = opsLeft - 1
  /\ LET q == [Begin(r, "update") EXCEPT !.id = id, !.body = b]
     IN reqs' = [reqs EXCEPT ![r] =
                   IF id = BadId THEN Finish(q, 400, "CastError")
                   ELSE IF ~Truthy(b.email) THEN IssueUpdate(q, omitUndefined, now)
                   ELSE IF readyState # 1 THEN Rejected(q)
                   ELSE IF OtherOwner(users, b.email, id) # {}
                   THEN Finish(q, 400, "DuplicateEmail")
                   ELSE IssueUpdate(q, omitUndefined, now)]
  /\ UNCHANGED <<hvars, opTimeout, cvars>>
  /\ UNCHANGED <<users, nextId, now, readyState, everConnected, omitUndefined,
                 deleted, modified>>

\* findByIdAndUpdate with upsert: a record of the id is inserted when none is
\* stored
PutFindByIdAndUpsert(r) ==
  /\ reqs[r].op = "update"
  /\ reqs[r].pc = "findByIdAndUpdate"
  /\ readyState = 1
  /\ LET q == reqs[r]
         new == IF q.id \in Ids(users)
                THEN ApplySet(ById(users, q.id), q.doc, omitUndefined,
                              q.doc.updatedAt)
                ELSE q.doc
     IN IF DuplicateKey(users, new)
        THEN /\ reqs' = [reqs EXCEPT ![r] = Finish(q, 400, "E11000")]
             /\ UNCHANGED <<users, modified>>
        ELSE /\ users' = Remove(users, q.id) \cup {new}
             /\ modified' = modified \cup {q.id}
             /\ reqs' = [Written(reqs) EXCEPT ![r] =
                           [Finish(q, 200, "none") EXCEPT !.out = <<new>>]]
  /\ UNCHANGED <<hvars, opTimeout, cvars>>
  /\ UNCHANGED <<nextId, now, readyState, everConnected, omitUndefined, opsLeft,
                 deleted>>

\* the store applies findByIdAndUpdate(id, {...}, { new: true })
PutFindByIdAndUpdate(r) ==
  /\ reqs[r].op = "update"
  /\ reqs[r].pc = "findByIdAndUpdate"
  /\ readyState = 1
  /\ LET q == reqs[r]
     IN IF q.id \notin Ids(users)
        THEN /\ reqs' = [reqs EXCEPT ![r] = Finish(q, 404, "NotFound")]
             /\ UNCHANGED <<users, modified>>
        ELSE LET old == ById(users, q.id)
                 new == ApplySet(old, q.doc, omitUndefined, q.doc.updatedAt)
             IN IF DuplicateKey(users, new)
                THEN /\ reqs' = [reqs EXCEPT ![r] = Finish(q, 400, "E11000")]
                     /\ UNCHANGED <<users, modified>>
                ELSE /\ users' = (users \ {old}) \cup {new}
                     /\ modified' = modified \cup {q.id}
                     /\ reqs' = [Written(reqs) EXCEPT ![r] =
                                   [Finish(q, 200, "none")
                                      EXCEPT !.out = <<new>>]]
  /\ UNCHANGED <<hvars, opTimeout, cvars>>
  /\ UNCHANGED <<nextId, now, readyState, everConnected, omitUndefined, opsLeft,
                 deleted>>

\* ---------------------------------------------------- router.delete("/:id")
DeleteUser(r, id) ==
  /\ Free(r)
  /\ opsLeft > 0
  /\ opsLeft' = opsLeft - 1
  /\ LET q == [Begin(r, "delete") EXCEPT !.id = id]
     IN IF id # BadId /\ readyState = 1 /\ id \in Ids(users)
        THEN /\ users' = Remove(users, id)
             /\ deleted' = deleted \cup {id}
             /\ reqs' = [Written(reqs) EXCEPT ![r] =
                           [Finish(q, 200, "none")
                              EXCEPT !.out = <<ById(users, id)>>]]
        ELSE /\ reqs' = [reqs EXCEPT ![r] =
                           IF id = BadId THEN Finish(q, 500, "CastError")
                           ELSE IF readyState # 1 THEN Rejected(q)
                           ELSE Finish(q, 404, "NotFound")]
             /\ UNCHANGED <<users, deleted>>
  /\ UNCHANGED <<hvars, opTimeout, cvars>>
  /\ UNCHANGED <<nextId, now, readyState, everConnected, omitUndefined, modified>>

\* ---------------------------------------------------- router.get("/")
\* page and limit are parsed and
\* await User.find().skip(skip).limit(limit).sort({ createdAt: -1 }) answers;
\* the store refuses a negative skip
ListUsers(r, rawPage, rawLimit) ==
  /\ Free(r)
  /\ opsLeft > 0
  /\ opsLeft' = opsLeft - 1
  /\ LET q == [Begin(r, "list") EXCEPT !.rawPage = rawPage,
                                       !.rawLimit = rawLimit,
                                       !.page = ParsePage(rawPage),
                                       !.limit = ParseLimit(rawLimit)]
     IN IF readyState # 1
        THEN reqs' = [reqs EXCEPT ![r] = Rejected(q)]
        ELSE IF Skip(q.page, q.limit) < 0
        THEN reqs' = [reqs EXCEPT ![r] = Finish(q, 500, "BadValue")]
        ELSE \E ord \in Orders(users) :
               reqs' = [reqs EXCEPT ![r] =
                          [q EXCEPT !.pc = "countDocuments",
                                    !.out = PageOf(ord, Skip(q.page, q.limit),
                                                   q.limit)]]
  /\ UNCHANGED <<hvars, opTimeout, cvars>>
  /\ UNCHANGED <<users, nextId, now, readyState, everConnected, omitUndefined,
                 deleted, modified>>

\* await User.countDocuments() answers and the response is sent
ListCountDocuments(r) ==
  /\ reqs[r].op = "list"
  /\ reqs[r].pc = "countDocuments"
  /\ readyState = 1
  /\ LET q == reqs[r]
     IN reqs' = [reqs EXCEPT ![r] =
                   [Finish(q, 200, "none")
                      EXCEPT !.total = Cardinality(users),
                             !.totalPages = TotalPages(Cardinality(users),
                                                       q.limit)]]
  /\ UNCHANGED <<hvars, opTimeout, cvars>>
  /\ UNCHANGED <<users, nextId, now, readyState, everConnected, omitUndefined,
                 opsLeft, deleted, modified>>

\* ---------------------------------------------------- router.get("/search/:query")
SearchUsers(r, pat) ==
  /\ Free(r)
  /\ opsLeft > 0
  /\ opsLeft' = opsLeft - 1
  /\ LET q == [Begin(r, "search") EXCEPT !.query = pat]
     IN IF readyState # 1
        THEN reqs' = [reqs EXCEPT ![r] = Rejected(q)]
        ELSE IF ~RegexValid(pat)
        THEN reqs' = [reqs EXCEPT ![r] = Finish(q, 500, "BadRegex")]
        ELSE \E ord \in Orders(SearchHits(users, pat)) :
               reqs' = [reqs EXCEPT ![r] =
                          [Finish(q, 200, "none") EXCEPT !.out = ord]]
  /\ UNCHANGED <<hvars, opTimeout, cvars>>
  /\ UNCHANGED <<users, nextId, now, readyState, everConnected, omitUndefined,
                 deleted, modified>>

\* the router matches GET paths in the order the routes are declared: "/",
\* "/:id", "/search/:query"; a path is its segments, and a parameter matches
\* exactly one segment
RouterGet(path) ==
  IF Len(path) = 0 THEN "list"
  ELSE IF Len(path) = 1 THEN "get"
  ELSE IF Len(path) = 2 /\ path[1] = "search" THEN "search"
  ELSE "none"

\* the segments of GET /api/users/search/<query>: with an empty query the
\* path is /search/, and the router ignores the trailing slash
SearchPath(pat) == IF pat = <<>> THEN <<"search">> ELSE <<"search", pat>>

\* GET /api/users/search/<query> arrives: the search handler runs when the
\* path has two segments; the path /search/ is taken by "/:id" with the id
\* "search", which does not cast to an ObjectId
GetSearch(r, pat) ==
  IF RouterGet(SearchPath(pat)) = "search"
  THEN SearchUsers(r, pat)
  ELSE /\ Free(r)
       /\ opsLeft > 0
       /\ opsLeft' = opsLeft - 1
       /\ reqs' = [reqs EXCEPT ![r] =
                     Finish([Begin(r, "get") EXCEPT !.id = BadId, !.query = pat],
                            500, "CastError")]
       /\ UNCHANGED <<hvars, opTimeout, cvars>>
       /\ UNCHANGED <<users, nextId, now, readyState, everConnected,
                      omitUndefined, deleted, modified>>

\* ------------------------------------------------------- store unavailable
\* a later store call of a request rejects
StoreError(r) ==
  /\ reqs[r].pc \in {"save", "findByIdAndUpdate", "countDocuments"}
  /\ readyState # 1
  /\ reqs' = [reqs EXCEPT ![r] = Rejected(reqs[r])]
  /\ UNCHANGED <<hvars, opTimeout, cvars>>
  /\ UNCHANGED <<users, nextId, now, readyState, everConnected, omitUndefined,
                 opsLeft, deleted, modified>>

\* the response has been sent and the request is over
Close(r) ==
  /\ reqs[r].pc = "done"
  /\ reqs' = [reqs EXCEPT ![r] = Idle]
  /\ UNCHANGED <<hvars, opTimeout, cvars>>
  /\ UNCHANGED <<users, nextId, now, readyState, everConnected, omitUndefined,
                 opsLeft, deleted, modified>>

\* ------------------------------------------------------------ environment
Tick ==
  /\ now < MaxClock
  /\ now' = now + 1
  /\ UNCHANGED <<hvars, opTimeout, cvars>>
  /\ UNCHANGED <<users, nextId, readyState, everConnected, omitUndefined, reqs,
                 opsLeft, deleted, modified>>

\* mongoose.connect(...) resolves
Connected ==
  /\ readyState = 2
  /\ readyState' = 1
  /\ everConnected' = TRUE
  /\ UNCHANGED <<hvars, opTimeout, cvars>>
  /\ UNCHANGED <<users, nextId, now, omitUndefined, reqs, opsLeft, deleted,
                 modified>>

\* mongoose.connect(...) rejects; the initial attempt is not retried
ConnectFailed ==
  /\ readyState = 2
  /\ readyState' = 0
  /\ UNCHANGED <<hvars, opTimeout, cvars>>
  /\ UNCHANGED <<users, nextId, now, everConnected, omitUndefined, reqs,
                 opsLeft, deleted, modified>>

ConnectionLost ==
  /\ readyState = 1
  /\ readyState' = 0
  /\ UNCHANGED <<hvars, opTimeout, cvars>>
  /\ UNCHANGED <<users, nextId, now, everConnected, omitUndefined, reqs,
                 opsLeft, deleted, modified>>

\* the driver reconnects a connection that had been open
Reconnected ==
  /\ readyState = 0
  /\ everConnected
  /\ readyState' = 1
  /\ UNCHANGED <<hvars, opTimeout, cvars>>
  /\ UNCHANGED <<users, nextId, now, everConnected, omitUndefined, reqs,
                 opsLeft, deleted, modified>>

\* ---------------------------------------------------- the health routes
FreeProbe(r) ==
  /\ probes[r].pc = "idle"
  /\ \A q \in ProbeSlots : probes[q].pc = "idle" => r <= q
Pending(q) == {c \in PingChecks : q.ping[c] = "pending"}

\* if (readyState === 1) await ...ping(): the ping is sent only then
StartPing(rs) == IF rs = 1 THEN "pending" ELSE "down"

\* overall_status: detailedHealth.status
OverallOfDatabase(checks) == checks["database"].status
Overall(checks) == checks["detailed"].status

\* the six results that Promise.all collects
DashboardChecks(q) ==
  [c \in SubChecks |->
     CASE c = "basic" -> getBasicHealth
       [] c = "detailed" -> getDetailedHealth(q.ping["detailed"], q.seen)
       [] c = "database" -> checkDatabase(q.ping["database"])
       [] c = "readiness" -> checkReadiness(q.ping["readiness"])
       [] c = "liveness" -> checkLiveness
       [] c = "metrics" -> getSystemMetrics]

\* res.status(200).json({ dashboard: { overall_status, checks } })
DashboardJson(q) ==
  [q EXCEPT !.pc = "done", !.status = 200,
            !.top = Overall(DashboardChecks(q)),
            !.has = SubChecks, !.checks = DashboardChecks(q)]
\* the catch block: res.status(500).json({ dashboard: { overall_status:
\* "ERROR", error } })
DashboardError(q) ==
  [q EXCEPT !.pc = "done", !.status = 500, !.top = "ERROR",
            !.error = "error.message"]
DashboardAllOrNothing(q) ==
  IF \E c \in PingChecks : q.ping[c] # "ok" THEN DashboardError(q)
  ELSE DashboardJson(q)
\* none of the six promises rejects: checkDatabase and checkReadiness catch
\* the failure of their ping, so the catch block is not reached
Dashboard(q) == DashboardJson(q)

\* 200 for the wanted status, 503 otherwise
StatusCode(status, wanted) == IF status = wanted THEN 200 ELSE 503

\* the response of the route of q.path, once no ping is pending
Respond(q) ==
  LET done == [q EXCEPT !.pc = "done"]
  IN CASE q.path = <<"health">> ->
            [done EXCEPT !.status = 200, !.top = getBasicHealth.status,
                         !.body = getBasicHealth]
       [] q.path = <<"ping">> ->
            [done EXCEPT !.status = 200, !.top = "OK"]
       [] q.path = <<"health", "detailed">> ->
            LET h == getDetailedHealth(q.ping["detailed"], q.seen)
            IN [done EXCEPT !.status = StatusCode(h.status, "OK"),
                            !.top = h.status, !.body = h]
       [] q.path = <<"health", "database">> ->
            LET db == checkDatabase(q.ping["database"])
            IN [done EXCEPT !.status = StatusCode(db.status, "OK"),
                            !.top = db.status, !.body = db]
       [] q.path = <<"ready">> ->
            LET rd == checkReadiness(q.ping["readiness"])
            IN [done EXCEPT !.status = StatusCode(rd.status, "READY"),
                            !.top = rd.status, !.body = rd]
       [] q.path = <<"alive">> ->
            [done EXCEPT !.status = 200, !.top = checkLiveness.status,
                         !.body = checkLiveness]
       [] q.path = <<"metrics">> ->
            [done EXCEPT !.status = 200, !.body = getSystemMetrics]
       [] q.path = <<"health", "dashboard">> -> Dashboard(q)
       [] OTHER -> [done EXCEPT !.status = 404]

\* the handler runs until its first pending ping, or to its response
Arrive(path, pings, n) ==
  LET q == [IdleProbe EXCEPT !.path = path, !.pc = "ping", !.ping = pings,
                             !.seen = n]
  IN IF Pending(q) = {} THEN Respond(q) ELSE q

\* the ping of check c is answered; the handler resumes when none is pending
Settle(q, c, outcome, n) ==
  LET q1 == [q EXCEPT !.ping[c] = outcome,
                      !.seen = IF c = "detailed" THEN n ELSE @]
  IN IF Pending(q1) = {} THEN Respond(q1) ELSE q1

\* app.listen(...) called once mongoose.connect(...) has resolved
AdmitWhenConnected(r, path) ==
  /\ readyState = 1
  /\ FreeProbe(r)
  /\ probesLeft > 0
  /\ probesLeft' = probesLeft - 1
  /\ healthCheckCount' = Middleware(path, healthCheckCount)
  /\ UNCHANGED <<uvars, opTimeout, cvars>>

\* a request for path arrives and passes the middleware
Admit(r, path) ==
  /\ FreeProbe(r)
  /\ probesLeft > 0
  /\ probesLeft' = probesLeft - 1
  /\ healthCheckCount' = Middleware(path, healthCheckCount)
  /\ UNCHANGED <<uvars, opTimeout, cvars>>

\* app.get("/health")
GetHealth(r) ==
  /\ Admit(r, <<"health">>)
  /\ probes' = [probes EXCEPT ![r] =
                  Arrive(<<"health">>, NoPings, healthCheckCount')]

\* app.get("/ping")
GetPing(r) ==
  /\ Admit(r, <<"ping">>)
  /\ probes' = [probes EXCEPT ![r] =
                  Arrive(<<"ping">>, NoPings, healthCheckCount')]

\* app.get("/health/detailed")
GetHealthDetailed(r) ==
  /\ Admit(r, <<"health", "detailed">>)
  /\ probes' = [probes EXCEPT ![r] =
                  Arrive(<<"health", "detailed">>,
                         [NoPings EXCEPT !["detailed"] = StartPing(readyState)],
                         healthCheckCount')]

\* app.get("/health/database")
GetHealthDatabase(r) ==
  /\ Admit(r, <<"health", "database">>)
  /\ probes' = [probes EXCEPT ![r] =
                  Arrive(<<"health", "database">>,
                         [NoPings EXCEPT !["database"] = StartPing(readyState)],
                         healthCheckCount')]

\* app.get("/ready")
GetReady(r) ==
  /\ Admit(r, <<"ready">>)
  /\ probes' = [probes EXCEPT ![r] =
                  Arrive(<<"ready">>,
                         [NoPings EXCEPT !["readiness"] = StartPing(readyState)],
                         healthCheckCount')]

\* app.get("/alive")
GetAliveAsReady(r) ==
  /\ Admit(r, <<"alive">>)
  /\ probes' = [probes EXCEPT ![r] =
                  Arrive(<<"alive">>,
                         [NoPings EXCEPT !["readiness"] = StartPing(readyState)],
                         healthCheckCount')]
GetAlive(r) ==
  /\ Admit(r, <<"alive">>)
  /\ probes' = [probes EXCEPT ![r] =
                  Arrive(<<"alive">>, NoPings, healthCheckCount')]

\* app.get("/metrics")
GetMetrics(r) ==
  /\ Admit(r, <<"metrics">>)
  /\ probes' = [probes EXCEPT ![r] =
                  Arrive(<<"metrics">>, NoPings, healthCheckCount')]

\* app.get("/health/dashboard"): the three checks that ping read readyState
\* in the same turn
GetHealthDashboard(r) ==
  /\ Admit(r, <<"health", "dashboard">>)
  /\ probes' = [probes EXCEPT ![r] =
                  Arrive(<<"health", "dashboard">>,
                         [c \in PingChecks |-> StartPing(readyState)],
                         healthCheckCount')]

\* a path below /health that no route has: the middleware runs, then 404
GetHealthUnknown(r) ==
  /\ Admit(r, <<"health", "x">>)
  /\ probes' = [probes EXCEPT ![r] =
                  Arrive(<<"health", "x">>, NoPings, healthCheckCount')]

\* await mongoose.connection.db.admin().ping() resolves
PingOk(r, c) ==
  /\ probes[r].pc = "ping"
  /\ probes[r].ping[c] = "pending"
  /\ readyState = 1
  /\ probes' = [probes EXCEPT ![r] =
                  Settle(probes[r], c, "ok", healthCheckCount)]
  /\ UNCHANGED <<healthCheckCount, probesLeft>>
  /\ UNCHANGED <<uvars, opTimeout, cvars>>

\* await mongoose.connection.db.admin().ping() rejects
PingFail(r, c) ==
  /\ probes[r].pc = "ping"
  /\ probes[r].ping[c] = "pending"
  /\ probes' = [probes EXCEPT ![r] =
                  Settle(probes[r], c, "fail", healthCheckCount)]
  /\ UNCHANGED <<healthCheckCount, probesLeft>>
  /\ UNCHANGED <<uvars, opTimeout, cvars>>

\* the response has been sent and the request is over
CloseProbe(r) ==
  /\ probes[r].pc = "done"
  /\ probes' = [probes EXCEPT ![r] = IdleProbe]
  /\ UNCHANGED <<healthCheckCount, probesLeft>>
  /\ UNCHANGED <<uvars, opTimeout, cvars>>

\* ------------------------------------------------- no answer from the store
\* the driver gives up on a ping that the store has not answered
PingTimeout(r, c) ==
  /\ opTimeout
  /\ PingFail(r, c)

\* the connection has closed: the driver rejects the ping that was in flight
PingLost(r, c) ==
  /\ readyState # 1
  /\ PingFail(r, c)

\* the driver gives up on a command that the store has not answered
CommandTimeout(r) ==
  /\ opTimeout
  /\ reqs[r].pc \in {"save", "findByIdAndUpdate", "countDocuments"}
  /\ reqs' = [reqs EXCEPT ![r] = Rejected(reqs[r])]
  /\ UNCHANGED <<hvars, opTimeout, cvars>>
  /\ UNCHANGED <<users, nextId, now, readyState, everConnected, omitUndefined,
                 opsLeft, deleted, modified>>

\* ------------------------------------------- UserList.js: the component
Without(calls, i) ==
  SubSeq(calls, 1, i - 1) \o SubSeq(calls, i + 1, Len(calls))

\* onChange of the search box, or the Clear button: setSearchTerm(t), and
\* the effects of the next render
ChangeTerm(t) ==
  /\ clicksLeft > 0
  /\ t # searchTerm
  /\ clicksLeft' = clicksLeft - 1
  /\ searchTerm' = t
  /\ inflight' = inflight \o Effects(searchTerm, currentPage, t, currentPage)
  /\ UNCHANGED <<currentPage, totalPages, displayed, error>>
  /\ UNCHANGED <<uvars, hvars, opTimeout>>

\* handlePageChange(p): the pagination is rendered only when there is more
\* than one page and no search term
PageClick(p) ==
  /\ clicksLeft > 0
  /\ totalPages > 1
  /\ searchTerm = <<>>
  /\ p \in 1..totalPages
  /\ p # currentPage
  /\ clicksLeft' = clicksLeft - 1
  /\ currentPage' = p
  /\ inflight' = inflight \o Effects(searchTerm, currentPage, searchTerm, p)
  /\ UNCHANGED <<searchTerm, totalPages, displayed, error>>
  /\ UNCHANGED <<uvars, hvars, opTimeout>>

\* handleDelete of a row that is shown, confirmed: await userAPI.deleteUser(id)
DeleteClick ==
  /\ clicksLeft > 0
  /\ displayed # NoUsers
  /\ clicksLeft' = clicksLeft - 1
  /\ inflight' = Append(inflight, DeleteCall(currentPage))
  /\ UNCHANGED <<searchTerm, currentPage, totalPages, displayed, error>>
  /\ UNCHANGED <<uvars, hvars, opTimeout>>

\* fetchUsers resumes with the response: setUsers, setTotalPages, setError("")
ListResponse(i, pages) ==
  /\ i \in 1..Len(inflight)
  /\ inflight[i].kind = "list"
  /\ displayed' = ListOf(inflight[i].page)
  /\ totalPages' = pages
  /\ error' = <<>>
  /\ inflight' = Without(inflight, i)
  /\ UNCHANGED <<searchTerm, currentPage, clicksLeft>>
  /\ UNCHANGED <<uvars, hvars, opTimeout>>

\* handleSearch resumes with the response: setUsers, setTotalPages(1),
\* setCurrentPage(1), setError(""), and the effects of the next render
SearchResponse(i) ==
  /\ i \in 1..Len(inflight)
  /\ inflight[i].kind = "search"
  /\ displayed' = HitsOf(inflight[i].term)
  /\ totalPages' = 1
  /\ currentPage' = 1
  /\ error' = <<>>
  /\ inflight' = Without(inflight, i)
                   \o Effects(searchTerm, currentPage, searchTerm, 1)
  /\ UNCHANGED <<searchTerm, clicksLeft>>
  /\ UNCHANGED <<uvars, hvars, opTimeout>>

\* handleDelete resumes with the response and calls the fetchUsers of the
\* render it was started in
DeleteResponse(i) ==
  /\ i \in 1..Len(inflight)
  /\ inflight[i].kind = "delete"
  /\ inflight' = Without(inflight, i) \o fetchUsers(inflight[i].page)
  /\ UNCHANGED <<searchTerm, currentPage, totalPages, displayed, error,
                 clicksLeft>>
  /\ UNCHANGED <<uvars, hvars, opTimeout>>

\* the call rejects: the catch block sets the error and nothing else
CallFails(i) ==
  /\ i \in 1..Len(inflight)
  /\ error' = CASE inflight[i].kind = "list" -> <<"Failed to fetch users">>
                [] inflight[i].kind = "search" -> <<"Search failed">>
                [] inflight[i].kind = "delete" -> <<"Failed to delete user">>
  /\ inflight' = Without(inflight, i)
  /\ UNCHANGED <<searchTerm, currentPage, totalPages, displayed, clicksLeft>>
  /\ UNCHANGED <<uvars, hvars, opTimeout>>

\* the health routes, beside a request for a user
NextHealth ==
  \/ \E r \in ProbeSlots : GetHealth(r)
  \/ \E r \in ProbeSlots : GetPing(r)
  \/ \E r \in ProbeSlots : GetHealthDetailed(r)
  \/ \E r \in ProbeSlots : GetHealthDatabase(r)
  \/ \E r \in ProbeSlots : GetReady(r)
  \/ \E r \in ProbeSlots : GetAlive(r)
  \/ \E r \in ProbeSlots : GetMetrics(r)
  \/ \E r \in ProbeSlots : GetHealthDashboard(r)
  \/ \E r \in ProbeSlots : GetHealthUnknown(r)
  \/ \E r \in ProbeSlots, c \in PingChecks : PingOk(r, c)
  \/ \E r \in ProbeSlots, c \in PingChecks : PingFail(r, c)
  \/ \E r \in ProbeSlots : CloseProbe(r)
  \/ \E r \in Slots, id \in ClientIds : GetUser(r, id)
  \/ \E r \in Slots : Close(r)
  \/ Connected
  \/ ConnectFailed
  \/ ConnectionLost
  \/ Reconnected

SpecHealth == InitHealth /\ [][NextHealth]_vars

\* the record operations: create, get, update, delete
Next ==
  \/ \E r \in Slots, b \in Bodies : PostUser(r, b)
  \/ \E r \in Slots : PostSave(r)
  \/ \E r \in Slots, id \in ClientIds : GetUser(r, id)
  \/ \E r \in Slots, id \in ClientIds, b \in Bodies : PutUser(r, id, b)
  \/ \E r \in Slots : PutFindByIdAndUpdate(r)
  \/ \E r \in Slots, id \in ClientIds : DeleteUser(r, id)
  \/ \E r \in Slots : StoreError(r)
  \/ \E r \in Slots : Close(r)
  \/ Tick
  \/ Connected
  \/ ConnectFailed
  \/ ConnectionLost
  \/ Reconnected

Spec == Init /\ [][Next]_vars

\* creating, deleting and every way of reading
ReadBodies == {BodyRaw, BodyOther}
ReadParams == {<<UNDEF, UNDEF>>, <<(<<"2">>), (<<"1">>)>>}
NextRead ==
  \/ \E r \in Slots, b \in ReadBodies : PostUser(r, b)
  \/ \E r \in Slots : PostSave(r)
  \/ \E r \in Slots, id \in ClientIds : GetUser(r, id)
  \/ \E r \in Slots, id \in ClientIds : DeleteUser(r, id)
  \/ \E r \in Slots, pl \in ReadParams : ListUsers(r, pl[1], pl[2])
  \/ \E r \in Slots : ListCountDocuments(r)
  \/ \E r \in Slots, pat \in SearchTexts : GetSearch(r, pat)
  \/ \E r \in Slots : StoreError(r)
  \/ \E r \in Slots : Close(r)
  \/ Tick
  \/ Connected
  \/ ConnectFailed
  \/ ConnectionLost
  \/ Reconnected

SpecRead == Init /\ [][NextRead]_vars

\* creating and listing
NextList ==
  \/ \E r \in Slots, b \in ReadBodies : PostUser(r, b)
  \/ \E r \in Slots : PostSave(r)
  \/ \E r \in Slots, pl \in ListParams : ListUsers(r, pl[1], pl[2])
  \/ \E r \in Slots : ListCountDocuments(r)
  \/ \E r \in Slots : StoreError(r)
  \/ \E r \in Slots : Close(r)
  \/ Tick
  \/ Connected
  \/ ConnectFailed
  \/ ConnectionLost
  \/ Reconnected

SpecList == InitList /\ [][NextList]_vars

\* the writes alone, with bodies that break each constraint of the schema
BodyShortName == [name |-> <<" ", "J", " ">>, email |-> MailA, age |-> NoAge,
                  city |-> UNDEF, phone |-> UNDEF]
BodyBadMail == [name |-> Jo, email |-> <<"a", "@", "x">>, age |-> NoAge,
                city |-> UNDEF, phone |-> UNDEF]
BodyBaby == [name |-> Jo, email |-> MailA, age |-> 0, city |-> UNDEF,
             phone |-> UNDEF]
BodyLongCity == [name |-> Jo, email |-> MailA, age |-> NoAge,
                 city |-> [i \in 1..(MaxCity + 1) |-> "x"], phone |-> UNDEF]
BodyBadPhone == [name |-> Jo, email |-> MailA, age |-> NoAge, city |-> UNDEF,
                 phone |-> <<"1", "x">>]
BodyBlankPhone == [name |-> Jo, email |-> MailA, age |-> NoAge, city |-> UNDEF,
                   phone |-> <<" ">>]
WriteBodies == {BodyPlain, BodyOther, BodyOld, BodyNoMail, BodyShortName,
                BodyBadMail, BodyBaby, BodyLongCity, BodyBadPhone,
                BodyBlankPhone}
InitWrite == InitWith(MaxWriteOps)
NextWrite ==
  \/ \E r \in Slots, b \in WriteBodies : PostUser(r, b)
  \/ \E r \in Slots : PostSave(r)
  \/ \E r \in Slots, id \in ClientIds, b \in WriteBodies : PutUser(r, id, b)
  \/ \E r \in Slots : PutFindByIdAndUpdate(r)
  \/ \E r \in Slots : StoreError(r)
  \/ \E r \in Slots : Close(r)
  \/ Connected
  \/ ConnectFailed
  \/ ConnectionLost
  \/ Reconnected

SpecWrite == InitWrite /\ [][NextWrite]_vars

\* the user-list component and the answers to its calls
NextClient ==
  \/ \E t \in Terms : ChangeTerm(t)
  \/ \E p \in 1..MaxPages : PageClick(p)
  \/ DeleteClick
  \/ \E i \in 1..Len(inflight), pages \in 0..MaxPages : ListResponse(i, pages)
  \/ \E i \in 1..Len(inflight) : SearchResponse(i)
  \/ \E i \in 1..Len(inflight) : DeleteResponse(i)
  \/ \E i \in 1..Len(inflight) : CallFails(i)

SpecClient == Init /\ [][NextClient]_vars

\* requests that wait on the store, which may never answer.  The driver
\* rejects what is in flight when the connection closes; whether it gives
\* up on a command that an open connection leaves unanswered is the build's
\* choice, since the program sets no timeout of its own
InitBounded == Start(MaxBoundedOps, BOOLEAN)
NextBounded ==
  \/ \E r \in ProbeSlots : GetReady(r)
  \/ \E r \in ProbeSlots : GetHealthDashboard(r)
  \/ \E r \in ProbeSlots, c \in PingChecks : PingOk(r, c)
  \/ \E r \in ProbeSlots, c \in PingChecks : PingFail(r, c)
  \/ \E r \in ProbeSlots, c \in PingChecks : PingTimeout(r, c)
  \/ \E r \in ProbeSlots, c \in PingChecks : PingLost(r, c)
  \/ \E r \in ProbeSlots : CloseProbe(r)
  \/ \E r \in Slots, p \in ReadParams : ListUsers(r, p[1], p[2])
  \/ \E r \in Slots : ListCountDocuments(r)
  \/ \E r \in Slots : CommandTimeout(r)
  \/ \E r \in Slots : StoreError(r)
  \/ \E r \in Slots : Close(r)
  \/ Connected
  \/ ConnectFailed
  \/ ConnectionLost

SpecBounded ==
  /\ InitBounded
  /\ [][NextBounded]_vars
  /\ \A r \in ProbeSlots, c \in PingChecks : WF_vars(PingTimeout(r, c))
  /\ \A r \in ProbeSlots, c \in PingChecks : WF_vars(PingLost(r, c))
  /\ \A r \in Slots : WF_vars(CommandTimeout(r))
  /\ \A r \in Slots : WF_vars(StoreError(r))

\* ------------------------------------------------------------ properties
IsDone(r, op) == reqs[r].op = op /\ reqs[r].pc = "done"
\* the step in which the handler of op takes request slot r
Arrives(r, op) == reqs[r].pc = "idle" /\ reqs'[r].op = op
\* text compared as the spec compares it: surrounding blanks and case ignored
Canon(v) == Trim(ToLowerCase(v))
Owners(S, email) == {u \in S : Canon(u.email) = Canon(email)}

\* C1: in every reachable state at most one stored record has any given
\* email, compared case-insensitively, whatever the interleaving of the
\* create and update requests
C1_EmailUnique ==
  \A u, v \in users : ToLowerCase(u.email) = ToLowerCase(v.email) => u = v

\* two creates of the same email both passed the lookup; one was stored, the
\* other was refused by the store
C1_Witness ==
  \E r, s \in Slots :
    /\ IsDone(r, "create") /\ reqs[r].status = 201
    /\ IsDone(s, "create") /\ reqs[s].err = "E11000"
    /\ Canon(reqs[r].body.email) = Canon(reqs[s].body.email)

\* C2: a create whose email equals, case-insensitively, the email of a stored
\* record answers 400 DuplicateEmail and adds no record; a create of a valid
\* input whose email is unused answers 201 with the stored record, its fresh
\* id and its timestamps
C2_Create ==
  [][\A r \in Slots :
       /\ (Arrives(r, "create") /\ readyState = 1) =>
            LET b == reqs'[r].body
            IN IF b.email # UNDEF /\ Owners(users, b.email) # {}
               THEN /\ reqs'[r].pc = "done"
                    /\ reqs'[r].status = 400
                    /\ reqs'[r].err = "DuplicateEmail"
                    /\ users' = users
               ELSE InvalidPaths(CastBody(b)) = {} => reqs'[r].pc = "save"
       /\ (reqs[r].op = "create" /\ reqs[r].pc = "save" /\ reqs'[r].pc = "done"
             /\ readyState = 1) =>
            IF Owners(users, reqs[r].body.email) = {}
            THEN /\ reqs'[r].status = 201
                 /\ Len(reqs'[r].out) = 1
                 /\ reqs'[r].out[1].id \notin Ids(users)
                 /\ reqs'[r].out[1].createdAt = reqs'[r].out[1].updatedAt
                 /\ Canon(reqs'[r].out[1].email) = Canon(reqs[r].body.email)
                 /\ users' = users \cup {reqs'[r].out[1]}
            ELSE /\ reqs'[r].status = 400
                 /\ users' = users]_vars

\* a create was refused as a duplicate although its email, as sent, is the
\* email of no stored record
C2_Witness ==
  \E r \in Slots :
    /\ IsDone(r, "create")
    /\ reqs[r].err = "DuplicateEmail"
    /\ \A u \in users : u.email # reqs[r].body.email
    /\ \E u \in users : u.email = Canon(reqs[r].body.email)

Untouched(id) == id \notin modified /\ id \notin deleted
RoundTrip(c, g) ==
  /\ IsDone(c, "create") /\ reqs[c].status = 201
  /\ IsDone(g, "get") /\ reqs[g].status = 200
  /\ reqs[g].id = reqs[c].out[1].id
  /\ Untouched(reqs[g].id)
TrimmedOrAbsent(v) == IF v = UNDEF THEN UNDEF ELSE Trim(v)

\* C3 as stated: the record that get returns after a create has the name,
\* email, age, city and phone of the input
C3_RoundTripExact ==
  \A c, g \in Slots :
    RoundTrip(c, g) =>
      /\ reqs[g].out[1].name = reqs[c].body.name
      /\ reqs[g].out[1].email = reqs[c].body.email
      /\ reqs[g].out[1].age = reqs[c].body.age
      /\ reqs[g].out[1].city = reqs[c].body.city
      /\ reqs[g].out[1].phone = reqs[c].body.phone

\* C3 amended: get returns the record the create answered with; its name,
\* city and phone are the input's with the surrounding blanks removed, its
\* email is the input's trimmed and lower-cased, its age is the input's
C3_RoundTrip ==
  \A c, g \in Slots :
    RoundTrip(c, g) =>
      /\ reqs[g].out = reqs[c].out
      /\ reqs[g].out[1].name = Trim(reqs[c].body.name)
      /\ reqs[g].out[1].email = Trim(ToLowerCase(reqs[c].body.email))
      /\ reqs[g].out[1].age = reqs[c].body.age
      /\ reqs[g].out[1].city = TrimmedOrAbsent(reqs[c].body.city)
      /\ reqs[g].out[1].phone = TrimmedOrAbsent(reqs[c].body.phone)

\* a create of an input with blanks and capitals was read back
C3_Witness ==
  \E c, g \in Slots :
    /\ RoundTrip(c, g)
    /\ reqs[c].body.name # Trim(reqs[c].body.name)
    /\ reqs[c].body.email # ToLowerCase(reqs[c].body.email)

\* the step in which the store answers the findByIdAndUpdate of r with a record
Updated(r) ==
  /\ reqs[r].op = "update"
  /\ reqs[r].pc = "findByIdAndUpdate"
  /\ reqs'[r].pc = "done"
  /\ reqs'[r].status = 200

\* C4: a successful update leaves id and createdAt as they were and makes
\* updatedAt strictly later
C4_UpdateAdvances ==
  [][\A r \in Slots :
       Updated(r) =>
         /\ reqs'[r].out[1].id = ById(users, reqs[r].id).id
         /\ reqs'[r].out[1].createdAt = ById(users, reqs[r].id).createdAt
         /\ reqs'[r].out[1].updatedAt > ById(users, reqs[r].id).updatedAt]_vars

\* what holds of C4: id and createdAt are kept, updatedAt is the time at
\* which the update was issued
C4_UpdateFrame ==
  [][\A r \in Slots :
       Updated(r) =>
         /\ reqs'[r].out[1].id = ById(users, reqs[r].id).id
         /\ reqs'[r].out[1].createdAt = ById(users, reqs[r].id).createdAt
         /\ reqs'[r].out[1].updatedAt = reqs[r].doc.updatedAt
         /\ reqs'[r].out[1] \in users'
         /\ Ids(users') = Ids(users)]_vars

\* the step in which the update of slot r gets its answer
UpdateAnswered(r) ==
  /\ reqs'[r].op = "update"
  /\ reqs'[r].pc = "done"
  /\ reqs[r].pc # "done"

\* C5 as stated: an update of a well-formed id that no record has answers
\* 404 whatever the input, unless the store is down
C5_UpdateMissing ==
  [][\A r \in Slots :
       (/\ UpdateAnswered(r)
        /\ reqs'[r].id # BadId
        /\ reqs'[r].id \notin Ids(users)
        /\ reqs'[r].err # "StoreError") => reqs'[r].status = 404]_vars

\* C5 amended: an update of an id that no record has answers 400 CastError
\* when the id is malformed; for a well-formed id, an email some record owns
\* is refused first (400 DuplicateEmail), then an invalid field (400
\* ValidationError), and only then the store answers NotFound (404); the
\* collection is unchanged in every case
C5_UpdateMissingOrder ==
  [][\A r \in Slots :
       /\ (Arrives(r, "update") /\ reqs'[r].id = BadId) =>
            /\ users' = users
            /\ reqs'[r].pc = "done"
            /\ reqs'[r].status = 400
            /\ reqs'[r].err = "CastError"
       /\ (/\ Arrives(r, "update")
           /\ reqs'[r].id # BadId
           /\ reqs'[r].id \notin Ids(users)
           /\ (readyState = 1 \/ ~Truthy(reqs'[r].body.email))) =>
            /\ users' = users
            /\ IF /\ Truthy(reqs'[r].body.email)
                  /\ Owners(users, reqs'[r].body.email) # {}
               THEN /\ reqs'[r].pc = "done"
                    /\ reqs'[r].status = 400
                    /\ reqs'[r].err = "DuplicateEmail"
               ELSE IF UpdateInvalid(reqs'[r].body, omitUndefined) # {}
               THEN /\ reqs'[r].pc = "done"
                    /\ reqs'[r].status = 400
                    /\ reqs'[r].err = "ValidationError"
               ELSE reqs'[r].pc = "findByIdAndUpdate"
       /\ (/\ reqs[r].op = "update"
           /\ reqs[r].pc = "findByIdAndUpdate"
           /\ reqs'[r].pc = "done"
           /\ readyState = 1
           /\ reqs[r].id \notin Ids(users)) =>
            /\ users' = users
            /\ reqs'[r].status = 404
            /\ reqs'[r].err = "NotFound"]_vars

\* an update of an id that no record has was refused as a duplicate
C5_Witness ==
  \E r \in Slots :
    /\ IsDone(r, "update")
    /\ reqs[r].id = GhostId
    /\ reqs[r].status = 400
    /\ reqs[r].err = "DuplicateEmail"

C7_DeleteOnce ==
  [][/\ \A r \in Slots :
          (Arrives(r, "delete") /\ readyState = 1 /\ reqs'[r].id # BadId) =>
            IF reqs'[r].id \in Ids(users)
            THEN /\ reqs'[r].status = 200
                 /\ reqs'[r].out = <<ById(users, reqs'[r].id)>>
                 /\ users' = users \ {ById(users, reqs'[r].id)}
                 /\ reqs'[r].id \notin deleted
            ELSE /\ reqs'[r].status = 404
                 /\ users' = users
     /\ \A id \in deleted : id \notin Ids(users')
     /\ \A r \in Slots :
          (/\ reqs'[r].op \in {"get", "list", "search"}
           /\ reqs'[r].out # reqs[r].out) =>
            \A i \in 1..Len(reqs'[r].out) : reqs'[r].out[i].id \notin deleted]_vars

\* the same id was deleted a second time and the answer was 404
C7_Witness ==
  \E r \in Slots :
    /\ IsDone(r, "delete")
    /\ reqs[r].status = 404
    /\ reqs[r].id \in deleted

\* C8: get answers 404 exactly when no stored record has the id, whatever
\* the id, and 200 with the record otherwise
C8_GetStatus ==
  \A r \in Slots :
    (IsDone(r, "get") /\ reqs[r].quiet /\ reqs[r].err # "StoreError") =>
      IF reqs[r].id \in Ids(users)
      THEN reqs[r].status = 200 /\ reqs[r].out = <<ById(users, reqs[r].id)>>
      ELSE reqs[r].status = 404

\* a list answered 200 for a page >= 1 and a limit >= 1, and nothing has
\* been written since it read the collection
Listed(r) ==
  /\ IsDone(r, "list")
  /\ reqs[r].status = 200
  /\ reqs[r].quiet
  /\ reqs[r].page >= 1
  /\ reqs[r].limit >= 1
Elems(sq) == {sq[i] : i \in 1..Len(sq)}
CeilOf(n, l) == CHOOSE k \in 0..n : k * l >= n /\ (k = 0 \/ (k - 1) * l < n)

\* C9: with N records and no concurrent write, list reports totalUsers = N
\* and totalPages = ceil(N/L), a page is L consecutive records of the
\* createdAt-descending order, and the pages hold every record exactly once
C9_Pagination ==
  /\ \A r \in Slots :
       Listed(r) =>
         /\ reqs[r].total = Cardinality(users)
         /\ reqs[r].totalPages = CeilOf(Cardinality(users), reqs[r].limit)
         /\ \E ord \in Orders(users) :
              reqs[r].out = PageOf(ord, (reqs[r].page - 1) * reqs[r].limit,
                                   reqs[r].limit)
  /\ \A r, s \in Slots :
       (/\ Listed(r) /\ Listed(s)
        /\ reqs[r].limit = reqs[s].limit
        /\ reqs[r].page # reqs[s].page) =>
         Elems(reqs[r].out) \cap Elems(reqs[s].out) = {}

NonPositive(raw) == raw = UNDEF \/ ParseInt(raw) = NaN \/ ParseInt(raw) <= 0

\* C10: a page or limit that is absent, non-numeric, zero or negative is
\* replaced by 1 or 10, so no list query has a negative skip or a limit
\* below 1, and none fails because of page or limit
C10_Clamped ==
  \A r \in Slots :
    reqs[r].op = "list" =>
      /\ NonPositive(reqs[r].rawPage) => reqs[r].page = DefaultPage
      /\ NonPositive(reqs[r].rawLimit) => reqs[r].limit = DefaultLimit
      /\ Skip(reqs[r].page, reqs[r].limit) >= 0
      /\ reqs[r].limit >= 1
      /\ reqs[r].err # "BadValue"

\* text contains pat as a literal substring, letters compared without case
Contains(text, pat) ==
  /\ text # UNDEF
  /\ \E off \in 0..(Len(text) - Len(pat)) :
       \A i \in 1..Len(pat) : LowerChar(pat[i]) = LowerChar(text[off + i])
Descending(sq) ==
  \A i, j \in 1..Len(sq) : i < j => sq[i].createdAt >= sq[j].createdAt

\* C11: a search for a non-empty query answers 200 with exactly the stored
\* records whose name or email contains the query as a literal substring,
\* without regard to case, newest first, whatever characters the query has
C11_SearchLiteral ==
  \A r \in Slots :
    (/\ IsDone(r, "search")
     /\ reqs[r].quiet
     /\ reqs[r].err # "StoreError") =>
      /\ reqs[r].status = 200
      /\ Elems(reqs[r].out) =
           {u \in users : \/ Contains(u.name, reqs[r].query)
                          \/ Contains(u.email, reqs[r].query)}
      /\ Len(reqs[r].out) = Cardinality(Elems(reqs[r].out))
      /\ Descending(reqs[r].out)

\* C12: a search request with an empty query is answered by the search
\* handler with 200 and no records
C12_EmptySearch ==
  \A r \in Slots :
    (reqs[r].query = <<>> /\ reqs[r].pc = "done") =>
      /\ reqs[r].op = "search"
      /\ reqs[r].status = 200
      /\ reqs[r].out = <<>>

\* the step in which a health request takes slot r, and the one in which it
\* gets its response
ProbeArrives(r) == probes[r].pc = "idle" /\ probes'[r].pc # "idle"
ProbeAnswered(r) == probes[r].pc # "done" /\ probes'[r].pc = "done"
ProbeDone(r, path) == probes[r].path = path /\ probes[r].pc = "done"

\* C13: /ready reports READY exactly when readyState was 1 and the ping the
\* check sent succeeded, NOT_READY in every other case, and answers 200
\* exactly when it reports READY and 503 otherwise
C13_Readiness ==
  [][\A r \in ProbeSlots :
       /\ (ProbeArrives(r) /\ probes'[r].path = <<"ready">>) =>
            IF readyState = 1
            THEN /\ probes'[r].pc = "ping"
                 /\ probes'[r].ping["readiness"] = "pending"
            ELSE /\ probes'[r].pc = "done"
                 /\ probes'[r].top = "NOT_READY"
       /\ (ProbeAnswered(r) /\ probes'[r].path = <<"ready">>) =>
            /\ probes'[r].top \in {"READY", "NOT_READY"}
            /\ probes'[r].top = "READY" <=>
                 probes'[r].ping["readiness"] = "ok"
            /\ probes'[r].status = IF probes'[r].top = "READY" THEN 200
                                   ELSE 503]_vars

\* the connection was open, the ping failed, and /ready answered 503
C13_Witness ==
  \E r \in ProbeSlots :
    /\ ProbeDone(r, <<"ready">>)
    /\ probes[r].ping["readiness"] = "fail"
    /\ probes[r].status = 503
    /\ readyState = 1

\* C14: /alive answers 200 ALIVE at once in every state of the connection
\* and whatever pings are pending; it sends no ping
C14_Liveness ==
  [][\A r \in ProbeSlots :
       (ProbeArrives(r) /\ probes'[r].path = <<"alive">>) =>
         /\ probes'[r].pc = "done"
         /\ probes'[r].status = 200
         /\ probes'[r].top = "ALIVE"
         /\ probes'[r].ping = NoPings]_vars

\* /alive answered 200 while the connection was down and the ping of another
\* request was pending
C14_Witness ==
  \E r, o \in ProbeSlots :
    /\ ProbeDone(r, <<"alive">>)
    /\ probes[r].status = 200
    /\ readyState = 0
    /\ probes[o].pc = "ping"

\* C15: /health/detailed and /health/database report OK exactly when the
\* ping of that check succeeded (it is sent only when readyState is 1) and
\* ERROR otherwise, and answer 200 exactly when they report OK, else 503
C15_DatabaseStatus ==
  [][\A r \in ProbeSlots : \A c \in {"detailed", "database"} :
       /\ (ProbeArrives(r) /\ probes'[r].path = <<"health", c>>) =>
            IF readyState = 1
            THEN /\ probes'[r].pc = "ping"
                 /\ probes'[r].ping[c] = "pending"
            ELSE /\ probes'[r].pc = "done"
                 /\ probes'[r].top = "ERROR"
       /\ (ProbeAnswered(r) /\ probes'[r].path = <<"health", c>>) =>
            /\ probes'[r].top \in {"OK", "ERROR"}
            /\ probes'[r].top = "OK" <=> probes'[r].ping[c] = "ok"
            /\ probes'[r].status = IF probes'[r].top = "OK" THEN 200
                                   ELSE 503]_vars

\* the connection was open, the ping failed, and /health/detailed answered
\* 503 ERROR
C15_Witness ==
  \E r \in ProbeSlots :
    /\ ProbeDone(r, <<"health", "detailed">>)
    /\ probes[r].ping["detailed"] = "fail"
    /\ probes[r].top = "ERROR"
    /\ probes[r].status = 503

\* C16: /health/dashboard answers 200 also when the store is down or a ping
\* fails, and its overall_status is the status of the detailed view of the
\* same request
C16_DashboardStatus ==
  \A r \in ProbeSlots :
    ProbeDone(r, <<"health", "dashboard">>) =>
      /\ probes[r].status = 200
      /\ probes[r].top = probes[r].checks["detailed"].status
      /\ probes[r].top = "OK" <=> probes[r].ping["detailed"] = "ok"

\* the dashboard answered 200 with overall_status ERROR: the ping of its
\* detailed view failed while that of its database check succeeded
C16_Witness ==
  \E r \in ProbeSlots :
    /\ ProbeDone(r, <<"health", "dashboard">>)
    /\ probes[r].status = 200
    /\ probes[r].top = "ERROR"
    /\ probes[r].ping["detailed"] = "fail"
    /\ probes[r].ping["database"] = "ok"

Failing(res) == res.status \in {"ERROR", "NOT_READY"}

HealthPaths == {<<"health">>, <<"health", "detailed">>,
                <<"health", "database">>, <<"health", "dashboard">>,
                <<"health", "x">>}

Counted == {r \in ProbeSlots : /\ probes[r].pc # "idle"
                               /\ probes[r].path[1] = "health"}

\* C19: every request that passes the counter middleware adds exactly one,
\* also while other requests wait for their ping; the counter never
\* decreases, is at least the number of counted requests in flight and at
\* most the number of requests that have arrived
C19_AtomicIncrement ==
  [][/\ healthCheckCount' >= healthCheckCount
     /\ \A r \in ProbeSlots :
          (ProbeArrives(r) /\ probes'[r].path[1] = "health") =>
            healthCheckCount' = healthCheckCount + 1
     /\ healthCheckCount >= Cardinality(Counted)
     /\ healthCheckCount <= MaxProbeOps - probesLeft]_vars

\* two counted requests wait for their pings at once and the counter is 2
C19_Witness ==
  /\ \A r \in ProbeSlots : probes[r].pc = "ping" /\ probes[r].path[1] = "health"
  /\ healthCheckCount = MaxProbes

\* C20: a request for a user that fails because the store is unavailable is
\* answered 500, whatever the endpoint
C20_StoreFailure500 ==
  \A r \in Slots : reqs[r].err = "StoreError" => reqs[r].status = 500

\* the fields of a body that break a constraint of the schema, as the
\* specification words the constraints
Violated(b) ==
  {f \in Fields :
     \/ f = "name" /\ (b.name = UNDEF \/ Len(Trim(b.name)) < 2
                         \/ Len(Trim(b.name)) > 50)
     \/ f = "email" /\ (b.email = UNDEF \/ ~EmailMatch(Canon(b.email)))
     \/ f = "age" /\ b.age # NoAge /\ (b.age < 1 \/ b.age > 150)
     \/ f = "city" /\ b.city # UNDEF /\ Len(Trim(b.city)) > 100
     \/ f = "phone" /\ b.phone # UNDEF /\ ~PhoneMatch(Trim(b.phone))}
\* the fields a body carries
Present(b) ==
  {f \in Fields : \/ f = "name" /\ b.name # UNDEF
                  \/ f = "email" /\ b.email # UNDEF
                  \/ f = "age" /\ b.age # NoAge
                  \/ f = "city" /\ b.city # UNDEF
                  \/ f = "phone" /\ b.phone # UNDEF}
\* a phone of blanks only is trimmed to the empty string, which the match
\* validator lets through
Checked(b) ==
  {f \in Violated(b) : f = "phone" => Trim(b.phone) # <<>>}

Answers(r) == reqs[r].pc # "done" /\ reqs'[r].pc = "done"
Writes == {"create", "update", "delete"}

\* C22: a create, update or delete that ends with an error response makes no
\* change to the stored records; the records change only in the step in
\* which a write succeeds, and then a successful update replaces the one
\* record of its id, a successful delete removes the one record of its id
\* and a successful create adds one record
C22_NoPartialWrite ==
  [][/\ \A r \in Slots :
          (Answers(r) /\ reqs'[r].op \in Writes) =>
            LET q == reqs'[r]
            IN /\ q.status \in {200, 201, 400, 404, 500}
               /\ q.status \in {400, 404, 500} => users' = users
               /\ (q.op = "update" /\ q.status = 200) =>
                    /\ q.id \in Ids(users)
                    /\ users' = Remove(users, q.id) \cup {q.out[1]}
                    /\ q.out[1].id = q.id
               /\ (q.op = "delete" /\ q.status = 200) =>
                    /\ q.id \in Ids(users)
                    /\ users' = users \ {ById(users, q.id)}
               /\ (q.op = "create" /\ q.status = 201) =>
                    /\ q.out[1] \notin users
                    /\ users' = users \cup {q.out[1]}
     /\ users' # users =>
          \E r \in Slots : /\ Answers(r)
                           /\ reqs'[r].op \in Writes
                           /\ reqs'[r].status \in {200, 201}]_vars

\* an update reached the store, was refused there and its record is stored
\* as it was, while a create was refused by the unique index
C22_Witness ==
  \E r, s \in Slots :
    /\ IsDone(r, "update") /\ reqs[r].status = 400
    /\ reqs[r].id \in Ids(users) /\ reqs[r].id \notin modified
    /\ IsDone(s, "create") /\ reqs[s].err = "E11000"


\* C27: the number of stored records changes only by a successful create,
\* which adds one, and by a successful delete, which removes one; an update
\* never adds or removes a record: when it reaches the store it answers 404
\* if no record has its id, so an id that a delete has removed is the id of
\* no stored record afterwards, whatever update was in flight for it
C27_CountChanges ==
  [][/\ Cardinality(users') - Cardinality(users) \in {0 - 1, 0, 1}
     /\ Cardinality(users') = Cardinality(users) + 1 <=>
          \E r \in Slots : /\ Answers(r)
                           /\ reqs'[r].op = "create"
                           /\ reqs'[r].status = 201
     /\ Cardinality(users') = Cardinality(users) - 1 <=>
          \E r \in Slots : /\ Answers(r)
                           /\ reqs'[r].op = "delete"
                           /\ reqs'[r].status = 200
     /\ \A r \in Slots :
          (Answers(r) /\ reqs'[r].op = "update") =>
            /\ Ids(users') = Ids(users)
            /\ (reqs[r].pc = "findByIdAndUpdate" /\ readyState = 1) =>
                 IF reqs[r].id \in Ids(users)
                 THEN reqs'[r].status \in {200, 400}
                 ELSE reqs'[r].status = 404
     /\ \A id \in deleted' : id \notin Ids(users')]_vars

\* a delete removed a record, and the update of the same id that holds the
\* request slot before it was answered 404 and left no record of the id
C27_Witness ==
  \E r, s \in Slots :
    /\ r < s
    /\ IsDone(s, "delete") /\ reqs[s].status = 200
    /\ IsDone(r, "update") /\ reqs[r].status = 404
    /\ reqs[r].id = reqs[s].id
    /\ reqs[r].id \notin Ids(users)


\* C28: every list response agrees with one state of the store: its page
\* holds no more records than totalUsers, and a page that holds a record is
\* not reported with totalPages below currentPage
C28_ListConsistent ==
  \A r \in Slots :
    (IsDone(r, "list") /\ reqs[r].status = 200) =>
      /\ Len(reqs[r].out) <= reqs[r].total
      /\ reqs[r].out # <<>> => reqs[r].totalPages >= reqs[r].page


\* C29: within one dashboard response the checks that consult the store
\* agree: checks.database is OK exactly when checks.detailed, and with it
\* overall_status, is OK, and exactly when checks.readiness is READY
C29_ChecksAgree ==
  \A r \in ProbeSlots :
    (ProbeDone(r, <<"health", "dashboard">>) /\ probes[r].status = 200) =>
      /\ probes[r].checks["database"].status = "OK" <=>
           probes[r].checks["detailed"].status = "OK"
      /\ probes[r].checks["database"].status = "OK" <=>
           probes[r].checks["readiness"].status = "READY"
      /\ probes[r].checks["database"].status = "OK" <=> probes[r].top = "OK"


\* C23: the connection attempt does not hold back the server.  The
\* connection is connecting only before its first outcome, and leaves that
\* state for connected or disconnected; in every state of the connection a
\* request is taken and answered, and while the state is not connected
\* /alive answers 200 and /ready answers 503 NOT_READY at once
C23_StartupNotBlocked ==
  [][/\ readyState \in {0, 1, 2} /\ readyState' \in {0, 1, 2}
     /\ readyState = 2 => ~everConnected
     /\ readyState' = 2 => readyState = 2
     /\ \A r \in ProbeSlots :
          (FreeProbe(r) /\ probesLeft > 0) =>
            /\ ENABLED GetAlive(r)
            /\ ENABLED GetReady(r)
     /\ \A r \in ProbeSlots :
          (ProbeArrives(r) /\ readyState # 1) =>
            /\ probes'[r].path = <<"alive">> =>
                 probes'[r].pc = "done" /\ probes'[r].status = 200
            /\ probes'[r].path = <<"ready">> =>
                 /\ probes'[r].pc = "done"
                 /\ probes'[r].status = 503
                 /\ probes'[r].top = "NOT_READY"]_vars

\* the first attempt to connect has failed, and /alive has answered 200 and
\* /ready 503
C23_Witness ==
  \E r, o \in ProbeSlots :
    /\ readyState = 0 /\ ~everConnected
    /\ ProbeDone(r, <<"alive">>) /\ probes[r].status = 200
    /\ ProbeDone(o, <<"ready">>) /\ probes[o].status = 503


\* the routes whose answer depends on the store, with the check each runs
\* and the status it reports when the store answers
StoreRoutes == {<<"ready">>, <<"health", "detailed">>, <<"health", "database">>}
CheckOf(path) ==
  CASE path = <<"ready">> -> "readiness"
    [] path = <<"health", "detailed">> -> "detailed"
    [] path = <<"health", "database">> -> "database"
Healthy(path) == IF path = <<"ready">> THEN "READY" ELSE "OK"
Unhealthy(path) == IF path = <<"ready">> THEN "NOT_READY" ELSE "ERROR"

\* C24: the answer of /ready, /health/detailed and /health/database is a
\* function of what that request saw of the store: READY or OK with 200
\* when its ping succeeded, NOT_READY or ERROR with 503 when the connection
\* was not open or its ping failed, whatever the other checks have answered
\* and however many were served before; two requests for one route that saw
\* the same answer alike
C24_Stateless ==
  /\ \A r \in ProbeSlots :
       (probes[r].pc = "done" /\ probes[r].path \in StoreRoutes) =>
         LET q == probes[r]
         IN IF q.ping[CheckOf(q.path)] = "ok"
            THEN q.top = Healthy(q.path) /\ q.status = 200
            ELSE /\ q.ping[CheckOf(q.path)] \in {"down", "fail"}
                 /\ q.top = Unhealthy(q.path)
                 /\ q.status = 503
  /\ \A r, o \in ProbeSlots :
       (/\ probes[r].pc = "done" /\ probes[o].pc = "done"
        /\ probes[r].path \in StoreRoutes
        /\ probes[o].path = probes[r].path
        /\ probes[o].ping = probes[r].ping) =>
         /\ probes[o].top = probes[r].top
         /\ probes[o].status = probes[r].status

\* the first detailed check found the connection not open and answered
\* ERROR; the second, served after the store had connected, answered OK
C24_Witness ==
  \E r, o \in ProbeSlots :
    /\ ProbeDone(r, <<"health", "detailed">>)
    /\ probes[r].ping["detailed"] = "down"
    /\ probes[r].top = "ERROR" /\ probes[r].seen = 1
    /\ ProbeDone(o, <<"health", "detailed">>)
    /\ probes[o].ping["detailed"] = "ok"
    /\ probes[o].top = "OK" /\ probes[o].seen = 2


\* a term with no character other than blanks
OnlyBlanks(term) == \A k \in 1..Len(term) : term[k] = " "

\* C26: in the user list no call of the search endpoint carries an empty or
\* blank term, and when the search term becomes empty or blank the component
\* issues one call, the list of the current page
C26_BlankTermLists ==
  [][/\ \A i \in 1..Len(inflight') :
          inflight'[i].kind = "search" => ~OnlyBlanks(inflight'[i].term)
     /\ (searchTerm' # searchTerm /\ OnlyBlanks(searchTerm')) =>
          /\ Len(inflight') = Len(inflight) + 1
          /\ SubSeq(inflight', 1, Len(inflight)) = inflight
          /\ inflight'[Len(inflight')].kind = "list"
          /\ inflight'[Len(inflight')].page = currentPage]_vars

\* a blank was typed into the empty search box: the list was called a third
\* time and the search endpoint was not
C26_Witness ==
  /\ searchTerm = <<" ">>
  /\ clicksLeft = MaxClicks - 1
  /\ Len(inflight) = 3
  /\ \A i \in 1..3 : inflight[i].kind = "list"

\* C30: in the user list, once every call has been answered while a search
\* term that is not blank is active and no error is shown, the users
\* displayed are the hits of the search for the current term
C30_SearchDisplayed ==
  (inflight = <<>> /\ ~OnlyBlanks(searchTerm) /\ error = <<>>) =>
    displayed = HitsOf(searchTerm)


\* C25: every request that waits on the store is answered in the end, also
\* when the store never answers: a health request that has sent its ping,
\* and a list request that has sent its count
C25_BoundedResponse ==
  /\ \A r \in ProbeSlots : probes[r].pc = "ping" ~> probes[r].pc = "done"
  /\ \A r \in Slots :
       reqs[r].pc = "countDocuments" ~> reqs[r].pc = "done"


====
